---- MODULE Spec2Model ----
(***************************************************************************)
(* ETHSimulator: the client supervisor (ServiceManager), the transaction   *)
(* submitter (TransactionManager) and the environment they act on: the     *)
(* client processes, the RPC endpoint, the data directory and the node.    *)
(***************************************************************************)
EXTENDS Integers, Sequences, FiniteSets, TLC

\* ------------------------------------------------------------------ bounds
\* Web3 objects connect() may construct and cache in one run.
MaxHandles == 3
\* Client processes _start_client() may launch in one run.
MaxLaunch == 2
\* Calls of initialize_blockchain() in one run.
MaxInitCalls == 3
\* Raw transactions handed to the node in one run.
MaxTx == 3
\* Raw transactions handed to the node by calls with arbitrary arguments.
MaxCalls == 2
\* Entries of extra_args.
MaxExtraArgs == 2
\* Accounts of a simulator (num_accounts).
MaxAccounts == 3
\* The largest duration and the largest num_transactions given to run_simulation().
MaxStop == 3
\* Loop iterations followed in one run (a run may never stop).
MaxIterations == MaxStop + 1

\* ------------------------------------------------------- program constants
\* An off-by-one poll budget: range(9).
PollBudgetShort == 10 - 1
\* range(10) in connect(): the poll budget.
PollBudget == 10
\* time.sleep(1) in connect(): the poll interval.
PollInterval == 1

\* A gas limit of twice the cost of a plain transfer.
TransferGasDouble == 21000 * 2
\* "gas": 21000 in send_transaction().
TransferGas == 21000

rpc_url == "http://127.0.0.1:8545"
ClientTypes == {"geth", "reth"}

\* The players' addresses, and a recipient string that is no address.
Accounts == {"0xA1", "0xA2"}
BadAddress == "not-an-address"
\* The network gas prices the node may report.
GasPrices == {1, 2}
\* player.get("balance", "1000000000000000000"): 1 ETH in wei, as JSON text.
DefaultBalance == "1000000000000000000"

\* self._web3 is None / self._process is None
NoWeb3 == [id |-> 0, url |-> "none"]
NoProcess == 0

Pids == 1..MaxLaunch

VARIABLES
    client_type,   \* ServiceManager.client_type
    web3,          \* ServiceManager._web3: the cached connection handle
    process,       \* ServiceManager._process: pid of the owned Popen, or NoProcess
    pc,            \* position of the calling thread: "idle" or "polling" (in connect)
    polls,         \* _is_rpc_active() calls made by the connect() in progress / last
    slept,         \* time units slept by the connect() in progress / last
    call,          \* what the connect() in progress / last saw and did at its start
    last,          \* the operation last called, its outcome and returned handle
    nextId,        \* Web3 objects constructed and cached so far
    returned,      \* the handle the last successful connect() returned
    procs,         \* environment: state of every client process launched so far
    signalled,     \* environment: pids that received terminate() and were waited for
    extUp,         \* environment: an externally started client serves the endpoint
    installed,     \* environment: the client binary is on PATH
    datadir,       \* environment: the entries under self.datadir ("." is the directory)
    genesis,       \* environment: datadir/genesis.json, as last written
    initCalls,     \* calls of initialize_blockchain() so far
    initRuns,      \* runs of the client's init subcommand so far
    initOk,        \* some run of the init subcommand has exited 0
    lateRuns,      \* runs of the init subcommand made after one had exited 0
    mined,         \* node: per address, the transactions included in blocks
    pending,       \* node: per address, the <<nonce, gas price>> waiting in the pool
    rawLog,        \* every raw transaction handed to send_raw_transaction
    gasPrice,      \* node: the current network gas price
    boot,          \* position of TransactionSimulator.model_post_init
    config,        \* TransactionSimulator: num_accounts and the three sampler configs
    run,           \* run_simulation(): its arguments, loop variables and outcome
    draw           \* the sampling function last called, its raw draw and its result

\* The supervisor's fields, the calling thread, and what the calls returned.
supVars == <<client_type, web3, process, pc, polls, slept, call, nextId, returned>>
\* The client processes and the endpoint.
envVars == <<procs, signalled, extUp, installed>>

\* The data directory and the init subcommand.
ledgerVars == <<datadir, genesis, initCalls, initRuns, initOk, lateRuns>>
\* The node's ledger and pool, and what was sent to it.
nodeVars == <<mined, pending, rawLog, gasPrice>>

\* The simulator's configuration, its run and its samplers.
simVars == <<config, run, draw>>

vars == <<supVars, envVars, ledgerVars, nodeVars, last, boot, simVars>>

\* ------------------------------------------------------------ environment
\* Something answers JSON-RPC at rpc_url: the external client or a launched one.
RpcAnswers == extUp \/ \E p \in Pids : procs[p] = "serving"

\* The processes Popen has started so far.
Launched == {p \in Pids : procs[p] # "unborn"}

\* Before any connect() call; before any operation.
NoCall == [rpc |-> FALSE, cached |-> NoWeb3, live |-> FALSE, launched |-> FALSE,
           owned |-> NoProcess]
NoOp == [op |-> "none", result |-> "none", ret |-> NoWeb3]

\* ------------------------------------------------------- ServiceManager
\* Web3(Web3.HTTPProvider(url)).is_connected(): a handle answers when its
\* endpoint does.
is_connected(h) == h.url = rpc_url /\ RpcAnswers

is_client_running == web3 # NoWeb3 /\ is_connected(web3)

\* _is_rpc_active(): a throw-away handle on rpc_url; any exception is False.
is_rpc_active == is_connected([id |-> 0, url |-> rpc_url])

\* A handle bound to a hard-coded endpoint instead of self.rpc_url.
NewWeb3OtherUrl == [id |-> nextId + 1, url |-> "http://127.0.0.1:8546"]

\* Web3(Web3.HTTPProvider(self.rpc_url)): a new object at every construction.
NewWeb3 == [id |-> nextId + 1, url |-> rpc_url]

\* The Popen object of the next launch.
NewPid == Cardinality(Launched) + 1

\* A supervisor just constructed; the environment in any state it may be found in.
InitSupervisor ==
    /\ client_type \in ClientTypes
    /\ web3 = NoWeb3
    /\ process = NoProcess
    /\ pc = "idle"
    /\ polls = 0
    /\ slept = 0
    /\ call = NoCall
    /\ last = NoOp
    /\ nextId = 0
    /\ returned = NoWeb3
    /\ procs = [p \in Pids |-> "unborn"]
    /\ signalled = {}
    /\ extUp \in BOOLEAN
    /\ installed \in BOOLEAN

NoGenesis == [written |-> FALSE, alloc |-> {}]

\* A data directory nothing was written to; a node nothing was sent to.
LedgerUntouched ==
    /\ genesis = NoGenesis
    /\ initCalls = 0
    /\ initRuns = 0
    /\ initOk = FALSE
    /\ lateRuns = 0

NodeUntouched ==
    /\ mined = [a \in Accounts |-> 0]
    /\ pending = [a \in Accounts |-> {}]
    /\ rawLog = <<>>
    /\ gasPrice = 1

\* Python's None, for an optional number.
None == [given |-> FALSE, v |-> 0]
Some(x) == [given |-> TRUE, v |-> x]

\* No simulator: nothing configured, nothing run, nothing drawn.
NoConfig == [num_accounts |-> 0]
NoRun == [state |-> "NEW", duration |-> None, num_transactions |-> None,
          current_time |-> 0, iterations |-> 0, sampled |-> 0, attempts |-> 0,
          failures |-> 0, error |-> "none", stage |-> "top", inflight |-> {},
          gaps |-> 0, gap |-> 0]
NoDraw == [fn |-> "none"]

NoSimulator ==
    /\ boot = "none"
    /\ config = NoConfig
    /\ run = NoRun
    /\ draw = NoDraw

Init ==
    /\ InitSupervisor
    /\ datadir = {"."}
    /\ LedgerUntouched
    /\ NodeUntouched
    /\ NoSimulator

\* _start_client(): subprocess.Popen(command); FileNotFoundError when the binary
\* is missing, otherwise the handle is stored in _process (overwriting it).
start_client ==
    /\ installed
    /\ process' = NewPid
    /\ procs' = [procs EXCEPT ![NewPid] = "starting"]

\* connect(), up to the poll loop: launch unless the cached handle answers.
ConnectBegin ==
    /\ pc = "idle"
    /\ nextId < MaxHandles
    /\ is_client_running \/ ~installed \/ Cardinality(Launched) < MaxLaunch
    /\ call' = [rpc |-> RpcAnswers, cached |-> web3, live |-> is_client_running,
                launched |-> ~is_client_running /\ installed,
                owned |-> process]
    /\ polls' = 0
    /\ slept' = 0
    /\ IF is_client_running
       THEN /\ pc' = "polling"
            /\ last' = [op |-> "connect", result |-> "polling", ret |-> NoWeb3]
            /\ UNCHANGED <<process, procs>>
       ELSE IF installed
            THEN /\ start_client
                 /\ pc' = "polling"
                 /\ last' = [op |-> "connect", result |-> "polling", ret |-> NoWeb3]
            ELSE /\ pc' = "idle"
                 /\ last' = [op |-> "connect", result |-> "FileNotFoundError",
                             ret |-> NoWeb3]
                 /\ UNCHANGED <<process, procs>>
    /\ boot' = IF boot = "ledger"
               THEN (IF is_client_running \/ installed THEN "connect" ELSE "failed")
               ELSE IF boot = "checked"
               THEN (IF is_client_running \/ installed THEN "reconnect" ELSE "failed")
               ELSE boot
    /\ UNCHANGED <<client_type, web3, nextId, returned, signalled, extUp, installed>>
    /\ UNCHANGED <<ledgerVars, nodeVars, simVars>>

\* A failed poll that forgets the cached handle.
DroppedOnFailure == NoWeb3

\* _web3 after a poll without answer: the sleep and the raise assign nothing.
KeptOnFailure == web3

\* One iteration of "for _ in range(10)": poll; on an answer cache a new handle
\* and return it, otherwise sleep; after the last sleep raise ConnectionError.
ConnectPoll ==
    /\ pc = "polling"
    /\ polls < PollBudget
    /\ polls' = polls + 1
    /\ IF is_rpc_active
       THEN /\ web3' = NewWeb3
            /\ nextId' = nextId + 1
            /\ returned' = NewWeb3
            /\ pc' = "idle"
            /\ last' = [op |-> "connect", result |-> "ok", ret |-> NewWeb3]
            /\ UNCHANGED slept
       ELSE /\ slept' = slept + PollInterval
            /\ IF polls + 1 = PollBudget
               THEN /\ pc' = "idle"
                    /\ last' = [op |-> "connect", result |-> "ConnectionError",
                                ret |-> NoWeb3]
               ELSE UNCHANGED <<pc, last>>
            /\ web3' = KeptOnFailure
            /\ UNCHANGED <<nextId, returned>>
    /\ boot' = IF boot \in {"connect", "reconnect"} /\ pc' = "idle"
               THEN (IF ~is_rpc_active THEN "failed"
                     ELSE IF boot = "connect" THEN "connected" ELSE "manager")
               ELSE boot
    /\ UNCHANGED <<client_type, process, call, procs, signalled, extUp, installed>>
    /\ UNCHANGED <<ledgerVars, nodeVars, simVars>>

\* stop_client() that terminates and waits but keeps the handle in _process.
stop_client_keeps_handle ==
    /\ pc = "idle"
    /\ IF process # NoProcess
       THEN /\ signalled' = signalled \cup {process}
            /\ procs' = [procs EXCEPT ![process] = "exited"]
            /\ last' = [op |-> "stop_client", result |-> "stopped", ret |-> NoWeb3]
            /\ UNCHANGED process
       ELSE /\ last' = [op |-> "stop_client", result |-> "nothing", ret |-> NoWeb3]
            /\ UNCHANGED <<signalled, procs, process>>
    /\ UNCHANGED <<client_type, web3, pc, polls, slept, call, nextId, returned,
                   extUp, installed, ledgerVars, nodeVars>>
    /\ UNCHANGED <<boot, simVars>>

\* stop_client() that, owning no process, stops whatever client serves the
\* endpoint (a kill by name instead of by handle).
stop_client_kills_any ==
    /\ pc = "idle"
    /\ IF process # NoProcess
       THEN /\ signalled' = signalled \cup {process}
            /\ procs' = [procs EXCEPT ![process] = "exited"]
            /\ process' = NoProcess
            /\ last' = [op |-> "stop_client", result |-> "stopped", ret |-> NoWeb3]
            /\ UNCHANGED extUp
       ELSE /\ last' = [op |-> "stop_client", result |-> "nothing", ret |-> NoWeb3]
            /\ extUp' = FALSE
            /\ UNCHANGED <<signalled, procs, process>>
    /\ UNCHANGED <<client_type, web3, pc, polls, slept, call, nextId, returned,
                   installed, ledgerVars, nodeVars>>
    /\ UNCHANGED <<boot, simVars>>

\* stop_client() that also forgets the cached handle.
stop_client_clears_cache ==
    /\ pc = "idle"
    /\ IF process # NoProcess
       THEN /\ signalled' = signalled \cup {process}
            /\ procs' = [procs EXCEPT ![process] = "exited"]
            /\ process' = NoProcess
            /\ web3' = NoWeb3
            /\ last' = [op |-> "stop_client", result |-> "stopped", ret |-> NoWeb3]
       ELSE /\ last' = [op |-> "stop_client", result |-> "nothing", ret |-> NoWeb3]
            /\ UNCHANGED <<signalled, procs, process, web3>>
    /\ UNCHANGED <<client_type, pc, polls, slept, call, nextId, returned,
                   extUp, installed, ledgerVars, nodeVars>>
    /\ UNCHANGED <<boot, simVars>>

\* stop_client(): terminate and wait for the owned process, then forget it;
\* nothing at all when no process is owned.
stop_client ==
    /\ pc = "idle"
    /\ IF process # NoProcess
       THEN /\ signalled' = signalled \cup {process}
            /\ procs' = [procs EXCEPT ![process] = "exited"]
            /\ process' = NoProcess
            /\ last' = [op |-> "stop_client", result |-> "stopped", ret |-> NoWeb3]
       ELSE /\ last' = [op |-> "stop_client", result |-> "nothing", ret |-> NoWeb3]
            /\ UNCHANGED <<signalled, procs, process>>
    /\ UNCHANGED <<client_type, web3, pc, polls, slept, call, nextId, returned,
                   extUp, installed, ledgerVars, nodeVars>>
    /\ UNCHANGED <<boot, simVars>>

\* get_web3() without the None check: returns whatever _web3 holds.
get_web3_unchecked ==
    /\ pc = "idle"
    /\ last' = [op |-> "get_web3", result |-> "ok", ret |-> web3]
    /\ UNCHANGED <<supVars, envVars, ledgerVars, nodeVars>>
    /\ UNCHANGED <<boot, simVars>>

\* get_web3(): the cached handle, or ValueError when there is none.
get_web3 ==
    /\ pc = "idle"
    /\ last' = IF web3 = NoWeb3
               THEN [op |-> "get_web3", result |-> "ValueError", ret |-> NoWeb3]
               ELSE [op |-> "get_web3", result |-> "ok", ret |-> web3]
    /\ UNCHANGED <<supVars, envVars, ledgerVars, nodeVars>>
    /\ UNCHANGED <<boot, simVars>>

\* ------------------------------------------------- environment's steps
\* A launched client finishes starting and binds the HTTP port, if it is free.
ProcServes ==
    /\ \E p \in Pids :
         /\ procs[p] = "starting"
         /\ ~RpcAnswers
         /\ procs' = [procs EXCEPT ![p] = "serving"]
    /\ UNCHANGED <<supVars, last, signalled, extUp, installed, ledgerVars, nodeVars>>
    /\ UNCHANGED <<boot, simVars>>

\* A launched client exits by itself (port taken, bad arguments, crash).
ProcExits ==
    /\ \E p \in Pids :
         /\ procs[p] \in {"starting", "serving"}
         /\ procs' = [procs EXCEPT ![p] = "exited"]
    /\ UNCHANGED <<supVars, last, signalled, extUp, installed, ledgerVars, nodeVars>>
    /\ UNCHANGED <<boot, simVars>>

\* A client started by someone else comes up on the endpoint, or goes away.
ExternalStarts ==
    /\ ~RpcAnswers
    /\ extUp' = TRUE
    /\ UNCHANGED <<supVars, last, procs, signalled, installed, ledgerVars, nodeVars>>
    /\ UNCHANGED <<boot, simVars>>

ExternalStops ==
    /\ extUp
    /\ extUp' = FALSE
    /\ UNCHANGED <<supVars, last, procs, signalled, installed, ledgerVars, nodeVars>>
    /\ UNCHANGED <<boot, simVars>>

\* ------------------------------------------------- initialize_blockchain
\* What genesis_path may name: nothing or no file (the built-in template, with an
\* empty alloc, is used), or a genesis file with its alloc of <<address, balance>>.
GenesisArgs ==
    { [isfile |-> FALSE, alloc |-> {}],
      [isfile |-> TRUE, alloc |-> {}],
      [isfile |-> TRUE, alloc |-> {<<"0xA1", "7">>}] }

\* What players_path may name: nothing or no file, or a list of players, each with
\* a balance or without one ("absent").
PlayersArgs ==
    { [isfile |-> FALSE, players |-> {}],
      [isfile |-> TRUE, players |-> {<<"0xA1", "absent">>}],
      [isfile |-> TRUE, players |-> {<<"0xA1", "5">>, <<"0xA2", "absent">>}] }

\* Exit status of the init subcommand.
ExitCodes == {0, 1}

\* genesis_data["alloc"][address] = {"balance": balance} for every player.
MergeAlloc(alloc, players) ==
    {e \in alloc : \A q \in players : q[1] # e[1]}
        \cup {<<q[1], IF q[2] = "absent" THEN DefaultBalance ELSE q[2]>> : q \in players}

\* What a run of the init subcommand that exits 0 leaves under the data
\* directory: geth keeps its databases in <datadir>/geth, reth in <datadir>/db.
InitCreates(client, exit) ==
    IF exit # 0 THEN {}
    ELSE IF client = "geth" THEN {"geth", "keystore"} ELSE {"db", "static_files"}

\* os.path.exists(datadir/geth) or os.path.exists(datadir/reth)
already_initialized == "geth" \in datadir \/ "reth" \in datadir

\* initialize_blockchain(genesis_path, players_path): return when the marker is
\* there; otherwise write datadir/genesis.json (FileNotFoundError from open() when
\* the directory does not exist) and run the init subcommand (FileNotFoundError
\* from subprocess.run() when the binary is missing), whose exit status is not
\* looked at.
\* exit is the status with which the init subcommand ends, should it be run.
initialize_blockchain(genesis_path, players_path, exit) ==
    /\ initCalls' = initCalls + 1
    /\ IF already_initialized
       THEN /\ last' = [op |-> "initialize_blockchain", result |-> "already initialized",
                        ret |-> NoWeb3]
            /\ UNCHANGED <<datadir, genesis, initRuns, initOk, lateRuns>>
       ELSE IF "." \notin datadir
       THEN /\ last' = [op |-> "initialize_blockchain", result |-> "FileNotFoundError",
                        ret |-> NoWeb3]
            /\ UNCHANGED <<datadir, genesis, initRuns, initOk, lateRuns>>
       ELSE /\ genesis' = [written |-> TRUE,
                           alloc |-> MergeAlloc(
                               IF genesis_path.isfile THEN genesis_path.alloc ELSE {},
                               IF players_path.isfile THEN players_path.players ELSE {})]
            /\ IF ~installed
               THEN /\ datadir' = datadir \cup {"genesis.json"}
                    /\ last' = [op |-> "initialize_blockchain",
                                result |-> "FileNotFoundError", ret |-> NoWeb3]
                    /\ UNCHANGED <<initRuns, initOk, lateRuns>>
               ELSE /\ datadir' = datadir \cup {"genesis.json"}
                                       \cup InitCreates(client_type, exit)
                    /\ initRuns' = initRuns + 1
                    /\ initOk' = (initOk \/ exit = 0)
                    /\ lateRuns' = lateRuns + (IF initOk THEN 1 ELSE 0)
                    /\ last' = [op |-> "initialize_blockchain", result |-> "ok",
                                ret |-> NoWeb3]
    /\ UNCHANGED <<supVars, envVars, nodeVars>>

\* A caller of the supervisor initializes the ledger, with any arguments.
InitializeLedger ==
    /\ pc = "idle"
    /\ initCalls < MaxInitCalls
    /\ \E genesis_path \in GenesisArgs, players_path \in PlayersArgs, exit \in ExitCodes :
         initialize_blockchain(genesis_path, players_path, exit)
    /\ UNCHANGED <<boot, simVars>>

\* Someone creates the data directory.
DatadirCreated ==
    /\ "." \notin datadir
    /\ datadir' = datadir \cup {"."}
    /\ UNCHANGED <<supVars, envVars, nodeVars, last, genesis, initCalls, initRuns,
                   initOk, lateRuns>>
    /\ UNCHANGED <<boot, simVars>>

\* --------------------------------------------------- TransactionManager
\* An address check that takes any string.
is_address_any(a) == TRUE

\* web3.is_address(recipient)
is_address(a) == a \in Accounts

\* web3.eth.get_transaction_count(address): the default block is "latest", so
\* the count is of the transactions already included in blocks.
get_transaction_count(address) == mined[address]

\* The node's verdict on a raw transaction: one whose nonce is already in the
\* pool replaces the pooled one only at a higher gas price; any transaction may
\* be rejected (for instance for insufficient balance).
NodeMayAccept(tx) ==
    \A q \in pending[tx.sender] : q[1] = tx.nonce => q[2] < tx.gasPrice

\* What to_wei() gives when it raises.
WeiOutOfRange == [digits |-> 0, shift |-> -1]

\* A conversion without the range check.
to_wei_unchecked(amount_ether) == [digits |-> amount_ether, shift |-> 18]

\* web3.to_wei(amount_ether, "ether"): the amount shifted by 18 decimal places;
\* ValueError when the result is below 0 (or above 2**256 - 1).
to_wei(amount_ether) ==
    IF amount_ether < 0 THEN WeiOutOfRange ELSE [digits |-> amount_ether, shift |-> 18]

\* The amounts a caller of the transaction manager may pass.
TxAmounts == {-1, 1}

\* The private keys a caller may pass: a key, and a string that is no key.
GoodKey == "0xkey"
PrivateKeys == {GoodKey, "not-a-key"}

\* The hash with which the node answers send_raw_transaction, and tx_hash.hex().
TxHash(tx) == [hash_of |-> tx]
hex(h) == [hex |-> h]

\* A send_transaction() that returns normally whatever the node answers.
VerdictSwallowed(accepted) == "ok"

\* send_raw_transaction() returns the hash when the node takes the transaction
\* and raises when the node rejects it; send_transaction() catches nothing.
Verdict(accepted) == IF accepted THEN "ok" ELSE "rejected"

\* send_transaction(sender, private_key, recipient, amount_ether): the handle
\* from get_web3(), the address check, the nonce and gas price read from the
\* node, the signature (an exception when the key is no key), then the signed
\* transaction handed to send_raw_transaction; every failure propagates. The node takes the transaction into its pool or rejects
\* it: accepts is the node's mood.
send_transaction(sender, private_key, recipient, amount_ether, accepts) ==
    /\ IF web3 = NoWeb3
       THEN /\ last' = [op |-> "send_transaction", result |-> "ValueError: not initialized",
                        ret |-> NoWeb3]
            /\ UNCHANGED nodeVars
       ELSE IF ~is_address(recipient)
       THEN /\ last' = [op |-> "send_transaction", result |-> "ValueError: invalid recipient",
                        ret |-> NoWeb3]
            /\ UNCHANGED nodeVars
       ELSE IF to_wei(amount_ether) = WeiOutOfRange
       THEN /\ last' = [op |-> "send_transaction", result |-> "ValueError: wei out of range",
                        ret |-> NoWeb3]
            /\ UNCHANGED nodeVars
       ELSE IF ~is_connected(web3)
       THEN /\ last' = [op |-> "send_transaction", result |-> "ConnectionError",
                        ret |-> NoWeb3]
            /\ UNCHANGED nodeVars
       ELSE IF private_key # GoodKey
       THEN /\ last' = [op |-> "send_transaction", result |-> "SigningError",
                        ret |-> NoWeb3]
            /\ UNCHANGED nodeVars
       ELSE LET tx == [sender |-> sender,
                       nonce |-> get_transaction_count(sender),
                       to |-> recipient,
                       value |-> to_wei(amount_ether),
                       gas |-> TransferGas,
                       gasPrice |-> gasPrice]
                accepted == accepts /\ NodeMayAccept(tx)
            IN /\ rawLog' = Append(rawLog, [tx |-> tx, accepted |-> accepted])
               /\ last' = [op |-> "send_transaction", result |-> Verdict(accepted),
                           ret |-> IF accepted THEN hex(TxHash(tx)) ELSE NoWeb3]
               /\ IF accepted
                  THEN pending' = [pending EXCEPT ![sender] =
                                      {q \in @ : q[1] # tx.nonce}
                                          \cup {<<tx.nonce, tx.gasPrice>>}]
                  ELSE UNCHANGED pending
               /\ UNCHANGED <<mined, gasPrice>>
    /\ UNCHANGED <<supVars, envVars, ledgerVars>>

\* A caller of the transaction manager submits a transfer of 1 ether, with
\* the sender's key.
SubmitTransaction ==
    /\ pc = "idle"
    /\ Len(rawLog) < MaxTx
    /\ \E sender \in Accounts, recipient \in Accounts \cup {BadAddress}, accepts \in BOOLEAN :
         send_transaction(sender, GoodKey, recipient, 1, accepts)
    /\ UNCHANGED <<boot, simVars>>

\* A caller of the transaction manager calls send_transaction() with any
\* arguments.
CallSendTransaction ==
    /\ pc = "idle"
    /\ Len(rawLog) < MaxCalls
    /\ \E sender \in Accounts, private_key \in PrivateKeys,
          recipient \in Accounts \cup {BadAddress},
          amount_ether \in TxAmounts, accepts \in BOOLEAN :
         send_transaction(sender, private_key, recipient, amount_ether, accepts)
    /\ UNCHANGED <<boot, simVars>>

\* The node includes an address's next pending transaction in a block.
Mine ==
    /\ RpcAnswers
    /\ \E a \in Accounts :
         /\ \E q \in pending[a] : q[1] = mined[a]
         /\ mined' = [mined EXCEPT ![a] = @ + 1]
         /\ pending' = [pending EXCEPT ![a] = {q \in @ : q[1] # mined[a]}]
    /\ UNCHANGED <<supVars, envVars, ledgerVars, last, rawLog, gasPrice>>
    /\ UNCHANGED <<boot, simVars>>

\* The network gas price moves.
GasPriceMoves ==
    /\ \E g \in GasPrices \ {gasPrice} : gasPrice' = g
    /\ UNCHANGED <<supVars, envVars, ledgerVars, last, mined, pending, rawLog>>
    /\ UNCHANGED <<boot, simVars>>

\* ------------------------------------------------- TransactionSimulator
\* The values pydantic accepts for the three sampler configuration records:
\* the Literal distributions, zipf_alpha >= 1, and any number for the rest.
PlayerSamplerConfigs ==
    [distribution : {"random", "zipf"}, zipf_alpha : {1, 2}]

AmountSamplerConfigs ==
    [distribution : {"uniform", "normal"}, amount_min : {-2, 1, 3}, amount_max : {-1, 1, 2},
     normal_mean : {2}, normal_std : {1}]

InterarrivalSamplerConfigs ==
    [distribution : {"exponential", "constant"}, period : {-1, 0, 1, 2}]

\* num_accounts: PositiveInt, with the three records.
AcceptedConfigs ==
    [num_accounts : 1..MaxAccounts,
     player : PlayerSamplerConfigs,
     amount : AmountSamplerConfigs,
     interarrival : InterarrivalSamplerConfigs]

\* The amount and account settings of the simulators whose construction and
\* runs are followed: two accounts, amounts uniform between 1 and 1 ether.
TwoPlayerConfigs ==
    {c \in AcceptedConfigs :
        /\ c.num_accounts = 2
        /\ c.player.zipf_alpha = 1
        /\ c.amount = [distribution |-> "uniform", amount_min |-> 1, amount_max |-> 1,
                       normal_mean |-> 2, normal_std |-> 1]}

\* No genesis_path, no players_path: the defaults of initialize_blockchain().
NoGenesisPath == [isfile |-> FALSE, alloc |-> {}]
NoPlayersPath == [isfile |-> FALSE, players |-> {}]

\* model_post_init(), first step: the supervisor is built and
\* initialize_blockchain() is called without arguments; an exception ends the
\* construction.
BootInitializeLedger ==
    /\ boot = "new"
    /\ pc = "idle"
    /\ \E exit \in ExitCodes : initialize_blockchain(NoGenesisPath, NoPlayersPath, exit)
    /\ boot' = IF last'.result = "FileNotFoundError" THEN "failed" ELSE "ledger"
    /\ UNCHANGED simVars

\* model_post_init(), second step: service_manager.connect().
BootConnect ==
    /\ boot = "ledger"
    /\ ConnectBegin

\* A check that never raises.
check_clients_silent == "ok"

\* check_clients(): runs "<client> version"; FileNotFoundError when the binary
\* is not on PATH. A non-zero exit of the binary is only printed.
check_clients == IF installed THEN "ok" ELSE "FileNotFoundError"

\* TransactionManager(service_manager=...), on the supervisor of a simulator
\* under construction (model_post_init(), third step) or on a supervisor a
\* caller holds: the validator first calls check_clients(), whose
\* FileNotFoundError ends the construction.
BootManager ==
    /\ boot \in {"connected", "supervisor"}
    /\ pc = "idle"
    /\ boot' = IF check_clients = "ok" THEN "checked" ELSE "failed"
    /\ last' = [op |-> "check_clients", result |-> check_clients, ret |-> NoWeb3]
    /\ UNCHANGED <<supVars, envVars, ledgerVars, nodeVars, simVars>>

\* The validator, second statement: "if not v.is_client_running():
\* v.connect()"; with a cached handle that answers the manager is constructed
\* at once, otherwise when connect() returns, and not at all when it raises.
ManagerConnect ==
    /\ boot = "checked"
    /\ pc = "idle"
    /\ IF is_client_running
       THEN /\ boot' = "manager"
            /\ last' = [op |-> "is_client_running", result |-> "ok", ret |-> web3]
            /\ UNCHANGED <<supVars, envVars, ledgerVars, nodeVars, simVars>>
       ELSE ConnectBegin

\* A caller who holds a supervisor and no manager yet calls connect() or
\* stop_client() on it.
CallerConnect ==
    /\ boot = "supervisor"
    /\ ConnectBegin

CallerStop ==
    /\ boot = "supervisor"
    /\ stop_client

\* model_post_init(), last step: AccountCreator(...).generate_accounts()
\* creates num_accounts new key pairs, and their addresses and keys become
\* _players. Nothing is written to disk, and no genesis is touched.
BootAccounts ==
    /\ boot = "manager"
    /\ pc = "idle"
    /\ boot' = "ready"
    /\ last' = [op |-> "generate_accounts", result |-> "ok", ret |-> NoWeb3]
    /\ UNCHANGED <<supVars, envVars, ledgerVars, nodeVars, simVars>>

\* self._players[i]: the address of the i-th generated account (0-based).
PlayerAddress(i) == <<"0xA1", "0xA2", "0xA3", "0xA4", "0xA5">>[i + 1]

\* np.random.choice(n, 2, replace=False): two distinct indices below n.
Choice2(n) == {q \in (0..(n - 1)) \X (0..(n - 1)) : q[1] # q[2]}

\* np.power(r, alpha), and the sum of f over the ranks 1..n.
RECURSIVE Power(_, _)
Power(r, alpha) == IF alpha = 0 THEN 1 ELSE r * Power(r, alpha - 1)

RECURSIVE SumOver(_, _)
SumOver(f, n) == IF n = 0 THEN 0 ELSE f[n] + SumOver(f, n - 1)

RECURSIVE ProductOver(_, _)
ProductOver(f, n) == IF n = 0 THEN 1 ELSE f[n] * ProductOver(f, n - 1)

\* zipf_probs = 1 / np.power(ranks, alpha); zipf_probs /= zipf_probs.sum(),
\* for ranks = 1..n: each weight as an exact fraction num / den over the common
\* denominator of the n terms.
ZipfWeights(n, alpha) ==
    LET common == ProductOver([k \in 1..n |-> Power(k, alpha)], n)
        term == [r \in 1..n |-> common \div Power(r, alpha)]
    IN [r \in 1..n |-> [num |-> term[r], den |-> SumOver(term, n)]]

\* The fields TransactionSimulator declares: the only names pydantic's
\* __setattr__ lets an instance assign (private attributes start with "_").
ModelFields ==
    {"num_accounts", "balance_sampler_config", "chain_id", "output_dir",
     "client_type", "rpc_url", "datadir", "extra_args",
     "transaction_player_sampler_config", "transaction_amount_sampler_config",
     "transaction_interarrival_sampler_config", "_players", "_transaction_manager"}

\* weights is the p given to np.random.choice(), empty when none is given.
NoPair == [result |-> "none", sender_idx |-> -1, recipient_idx |-> -1,
           sender |-> "none", recipient |-> "none", weights |-> <<>>]

\* _select_players(), as the set of its outcomes. The match knows "uniform" and
\* "zipf". On "uniform" it draws two distinct indices (ValueError from choice()
\* when there are fewer than two accounts). On "zipf" it assigns self.zipf_probs,
\* which is no field of the pydantic model: __setattr__ raises ValueError before
\* anything is drawn. On any other value no case matches and the read of
\* sender_idx raises UnboundLocalError.
select_players(c) ==
    IF c.player.distribution = "uniform"
    THEN IF c.num_accounts < 2
         THEN {[NoPair EXCEPT !.result = "ValueError"]}
         ELSE {[result |-> "ok", sender_idx |-> q[1], recipient_idx |-> q[2],
                sender |-> PlayerAddress(q[1]), recipient |-> PlayerAddress(q[2]),
                weights |-> <<>>] :
               q \in Choice2(c.num_accounts)}
    ELSE IF c.player.distribution = "zipf"
    THEN IF "zipf_probs" \notin ModelFields \/ c.num_accounts < 2
         THEN {[NoPair EXCEPT !.result = "ValueError"]}
         ELSE {[result |-> "ok", sender_idx |-> q[1], recipient_idx |-> q[2],
                sender |-> PlayerAddress(q[1]), recipient |-> PlayerAddress(q[2]),
                weights |-> ZipfWeights(c.num_accounts, c.player.zipf_alpha)] :
               q \in Choice2(c.num_accounts)}
    ELSE {[NoPair EXCEPT !.result = "UnboundLocalError"]}

\* np.random.uniform(low, high): low + (high - low) * u with u in [0, 1); with
\* high < low the result is officially undefined and may be an error.
UniformDraws(low, high) ==
    IF low <= high
    THEN {[result |-> "ok", z |-> 0, raw |-> x, ret |-> x] : x \in low..high}
    ELSE {[result |-> "ok", z |-> 0, raw |-> x, ret |-> x] : x \in high..low}
             \cup {[result |-> "ValueError", z |-> 0, raw |-> 0, ret |-> 0]}

\* Standard normal deviates: np.random.normal(loc, scale) is loc + scale * z.
StdNormalDraws == {-2, -1, 0, 1, 2}

\* The clipping of the normal branch.
Clip(x, lo, hi) == IF x < lo THEN lo ELSE IF x > hi THEN hi ELSE x

\* _generate_transaction_amount(), as the set of its outcomes: z is the
\* standard deviate drawn, raw the raw draw, ret the value returned.
\* np.random.normal raises ValueError on a negative scale. On a distribution
\* that matches no case the function ends without a return: its value is None.
generate_transaction_amount(c) ==
    IF c.amount.distribution = "uniform"
    THEN UniformDraws(c.amount.amount_min, c.amount.amount_max)
    ELSE IF c.amount.distribution # "normal"
    THEN {[result |-> "None", z |-> 0, raw |-> 0, ret |-> 0]}
    ELSE IF c.amount.amount_max < 0
    THEN {[result |-> "ValueError", z |-> 0, raw |-> 0, ret |-> 0]}
    ELSE {[result |-> "ok", z |-> z,
           raw |-> c.amount.amount_min + c.amount.amount_max * z,
           ret |-> Clip(c.amount.amount_min + c.amount.amount_max * z,
                        c.amount.amount_min, c.amount.amount_max)] :
          z \in StdNormalDraws}

\* Standard exponential deviates: np.random.exponential(scale) is scale * e.
StdExponentialDraws == {0, 1, 2}

\* _generate_interarrival_time(), as the set of its outcomes.
\* np.random.exponential raises ValueError on a negative scale. On a
\* distribution that matches no case the value is None.
generate_interarrival_time(c) ==
    IF c.interarrival.distribution = "exponential"
    THEN IF c.interarrival.period < 0
         THEN {[result |-> "ValueError", ret |-> 0]}
         ELSE {[result |-> "ok", ret |-> c.interarrival.period * e] :
               e \in StdExponentialDraws}
    ELSE IF c.interarrival.distribution = "constant"
    THEN {[result |-> "ok", ret |-> c.interarrival.period]}
    ELSE {[result |-> "None", ret |-> 0]}

\* The sampling functions, called one at a time.
SelectPlayers ==
    /\ \E o \in select_players(config) : draw' = [fn |-> "_select_players", out |-> o]
    /\ UNCHANGED <<supVars, envVars, ledgerVars, nodeVars, last, boot, config, run>>

GenerateTransactionAmount ==
    /\ \E o \in generate_transaction_amount(config) :
         draw' = [fn |-> "_generate_transaction_amount", out |-> o]
    /\ UNCHANGED <<supVars, envVars, ledgerVars, nodeVars, last, boot, config, run>>

GenerateInterarrivalTime ==
    /\ \E o \in generate_interarrival_time(config) :
         draw' = [fn |-> "_generate_interarrival_time", out |-> o]
    /\ UNCHANGED <<supVars, envVars, ledgerVars, nodeVars, last, boot, config, run>>

\* What a caller may pass to TransactionPlayerSamplerConfig(...).
PlayerSamplerInputs ==
    [distribution : {"random", "zipf", "uniform"}, zipf_alpha : {0, 1, 2}]

\* TransactionPlayerSamplerConfig(**kw): pydantic checks the Literal of
\* distribution and the constraint ge=1 of zipf_alpha when the record is built.
TransactionPlayerSamplerConfig(kw) ==
    IF kw.distribution \in {"random", "zipf"} /\ kw.zipf_alpha >= 1
    THEN [result |-> "ok", record |-> kw]
    ELSE [result |-> "ValidationError", record |-> kw]

\* A participant-sampler configuration is constructed.
ConstructPlayerSamplerConfig ==
    /\ \E kw \in PlayerSamplerInputs :
         draw' = [fn |-> "TransactionPlayerSamplerConfig",
                  out |-> TransactionPlayerSamplerConfig(kw)]
    /\ UNCHANGED <<supVars, envVars, ledgerVars, nodeVars, last, boot, config, run>>

\* What run_simulation() may be given as duration and as num_transactions.
StopArgs == {None} \cup {Some(x) : x \in 0..MaxStop}

\* The assertion with "at least one" in place of "exactly one".
AtLeastOneGiven(duration, num_transactions) ==
    duration.given \/ num_transactions.given

\* (duration is not None) + (num_transactions is not None) == 1
ExactlyOneGiven(duration, num_transactions) ==
    duration.given # num_transactions.given

\* run_simulation(duration, num_transactions), up to its loop: the assertion,
\* then currrent_time = 0.0 in duration mode.
run_simulation ==
    /\ boot = "ready"
    /\ run.state = "NEW"
    /\ pc = "idle"
    /\ \E duration \in StopArgs, num_transactions \in StopArgs :
         run' = [run EXCEPT !.duration = duration,
                            !.num_transactions = num_transactions,
                            !.state = IF ExactlyOneGiven(duration, num_transactions)
                                      THEN "RUNNING" ELSE "AssertionError"]
    /\ UNCHANGED <<supVars, envVars, ledgerVars, nodeVars, last, boot, config, draw>>

\* The loop's test: "while currrent_time < end_time" when a duration is given,
\* otherwise the next element of range(num_transactions).
LoopContinues ==
    IF run.duration.given
    THEN run.current_time < run.duration.v
    ELSE run.iterations < run.num_transactions.v

\* An exception that leaves _simulate_transaction() or the loop body ends
\* run_simulation().
Raised(r, error) == [r EXCEPT !.state = "FAILED", !.error = error]

\* _simulate_transaction() without its try: a failed send_transaction() raises.
Uncaught(r, result) ==
    IF result = "ok" THEN r ELSE Raised(r, result)

\* The try around send_transaction() in _simulate_transaction(): "except
\* Exception" prints the failure and the function returns normally.
Caught(r, result) ==
    [r EXCEPT !.failures = IF result = "ok" THEN @ ELSE @ + 1]

\* One turn of the loop of run_simulation(): the test, then
\* _simulate_transaction() (the pair and the amount are sampled outside the
\* try, send_transaction() inside it, any exception of it caught and printed),
\* then the inter-arrival draw, added to currrent_time in duration mode.
LoopStep ==
    /\ run.state = "RUNNING"
    /\ pc = "idle"
    /\ IF ~LoopContinues
       THEN /\ run' = [run EXCEPT !.state = "STOPPED"]
            /\ UNCHANGED <<supVars, envVars, ledgerVars, nodeVars, last>>
       ELSE /\ run.iterations < MaxIterations
            /\ \E pair \in select_players(config) :
                 IF pair.result # "ok"
                 THEN /\ run' = Raised([run EXCEPT !.sampled = @ + 1], pair.result)
                      /\ UNCHANGED <<supVars, envVars, ledgerVars, nodeVars, last>>
                 ELSE \E amount \in generate_transaction_amount(config) :
                      IF amount.result # "ok"
                      THEN /\ run' = Raised([run EXCEPT !.sampled = @ + 1], amount.result)
                           /\ UNCHANGED <<supVars, envVars, ledgerVars, nodeVars, last>>
                      ELSE \E accepts \in BOOLEAN, gap \in generate_interarrival_time(config) :
                           /\ send_transaction(pair.sender, GoodKey, pair.recipient,
                                               amount.ret, accepts)
                           /\ LET sent == Caught([run EXCEPT !.sampled = @ + 1,
                                                              !.attempts = @ + 1],
                                                 last'.result)
                              IN run' = IF sent.state = "FAILED"
                                        THEN sent
                                        ELSE IF gap.result # "ok"
                                        THEN Raised(sent, gap.result)
                                        ELSE [sent EXCEPT
                                                !.iterations = @ + 1,
                                                !.gaps = @ + 1,
                                                !.gap = gap.ret,
                                                !.current_time = IF run.duration.given
                                                                 THEN @ + gap.ret ELSE @]
    /\ UNCHANGED <<boot, config, draw>>

\* ------------------------------------------------------------------------
\* The launch command of _start_client(). Here config holds the three fields
\* of the supervisor the command is built from: rpc (the rpc_url, by its host
\* and port parts), datadir and extra_args (the dictionary, as the sequence of
\* its <<flag, value>> items in insertion order).

\* host "" is a URL without host; port None one without port.
RpcUrls ==
    [host : {"", "127.0.0.1", "Node.local"}, port : {None, Some(0), Some(9000)}]

\* urlparse(url).hostname: the host in lower case, None (here "") when absent.
hostname(url) == IF url.host = "Node.local" THEN "node.local" ELSE url.host

\* str() of an integer: its decimal digits.
str(n) == [digits |-> n]

\* The defaults of "hostname or ..." and "port or ...".
DefaultHost == "127.0.0.1"
DefaultPort == 8545

\* host = parsed_url.hostname or "127.0.0.1"
Host(url) == IF hostname(url) = "" THEN DefaultHost ELSE hostname(url)

\* port = str(parsed_url.port or 8545): an absent port and port 0 are both
\* falsy.
Port(url) == IF url.port.given /\ url.port.v # 0 THEN str(url.port.v) ELSE str(DefaultPort)

Flags == {"--dev", "--network", "--verbosity"}
FlagValues == {"", "mainnet"}

\* The dictionaries extra_args may be: values are strings (Dict[str, str]),
\* keys are distinct.
ExtraArgs ==
    {e \in UNION {[1..n -> Flags \X FlagValues] : n \in 0..MaxExtraArgs} :
        \A i, j \in DOMAIN e : e[i][1] = e[j][1] => i = j}

\* A test that takes every value.
TruthyAlways(value) == TRUE

\* "if value:" on a string: false for the empty string only.
Truthy(value) == value # ""

\* for key, value in extra_args.items(): command.append(key); if value:
\* command.append(str(value))
RECURSIVE AppendExtraArgs(_, _)
AppendExtraArgs(command, items) ==
    IF items = <<>>
    THEN command
    ELSE AppendExtraArgs(
             IF Truthy(Head(items)[2])
             THEN command \o <<Head(items)[1], Head(items)[2]>>
             ELSE Append(command, Head(items)[1]),
             Tail(items))

\* The command list _start_client() hands to Popen.
LaunchCommand(client, url, dir, items) ==
    AppendExtraArgs(
        IF client = "reth"
        THEN <<"reth", "node", "--http", "--http.addr", Host(url),
               "--http.port", Port(url), "--datadir", dir>>
        ELSE <<"geth", "--http", "--http.addr", Host(url),
               "--http.port", Port(url), "--datadir", dir, "--syncmode", "full">>,
        items)

\* _start_client(): the command is built and handed to Popen.
StartClient ==
    /\ pc = "idle"
    /\ Cardinality(Launched) < MaxLaunch
    /\ draw' = [fn |-> "_start_client",
                out |-> LaunchCommand(client_type, config.rpc, config.datadir,
                                      config.extra_args)]
    /\ IF installed
       THEN /\ start_client
            /\ last' = [op |-> "_start_client", result |-> "ok", ret |-> NoWeb3]
       ELSE /\ last' = [op |-> "_start_client", result |-> "FileNotFoundError",
                        ret |-> NoWeb3]
            /\ UNCHANGED <<process, procs>>
    /\ UNCHANGED <<client_type, web3, pc, polls, slept, call, nextId, returned,
                   signalled, extUp, installed>>
    /\ UNCHANGED <<ledgerVars, nodeVars, boot, config, run>>

\* ------------------------------------------------------------------------
\* The loop of run_simulation() once more, one statement at a time: stage is
\* the position of the loop ("top": at its test; "sending": in the call of
\* send_transaction() of _simulate_transaction()), inflight the calls of
\* send_transaction() that have begun and not ended, each with what it has
\* read so far.

\* Control passes the call at once, the call running on by itself.
ReturnedAtOnce == TRUE

\* The call of send_transaction() in _simulate_transaction() is a plain call:
\* control is back in the caller when the body has run to its return or raised.
Returned == run.inflight = {}

\* What send_transaction() raises before it reads the nonce, or "ok".
BeforeNonceRead(c) ==
    IF web3 = NoWeb3 THEN "ValueError: not initialized"
    ELSE IF ~is_address(c.recipient) THEN "ValueError: invalid recipient"
    ELSE IF to_wei(c.amount) = WeiOutOfRange THEN "ValueError: wei out of range"
    ELSE IF ~is_connected(web3) THEN "ConnectionError"
    ELSE "ok"

\* The loop test, then the two samplings of _simulate_transaction() and the
\* entry into send_transaction().
SeqSample ==
    /\ run.state = "RUNNING"
    /\ run.stage = "top"
    /\ pc = "idle"
    /\ IF ~LoopContinues
       THEN run' = [run EXCEPT !.state = "STOPPED"]
       ELSE /\ run.iterations < MaxIterations
            /\ \E pair \in select_players(config) :
                 IF pair.result # "ok"
                 THEN run' = Raised([run EXCEPT !.sampled = @ + 1], pair.result)
                 ELSE \E amount \in generate_transaction_amount(config) :
                      IF amount.result # "ok"
                      THEN run' = Raised([run EXCEPT !.sampled = @ + 1], amount.result)
                      ELSE run' = [run EXCEPT
                                     !.sampled = @ + 1,
                                     !.attempts = @ + 1,
                                     !.stage = "sending",
                                     !.inflight = @ \cup
                                         {[sender |-> pair.sender,
                                           recipient |-> pair.recipient,
                                           amount |-> amount.ret,
                                           step |-> "called",
                                           nonce |-> 0,
                                           gasPrice |-> 0]}]
    /\ UNCHANGED <<supVars, envVars, ledgerVars, nodeVars, last, boot, config, draw>>

\* send_transaction() up to the transaction dictionary: the checks, then the
\* nonce and the gas price read from the node.
SeqNonceRead ==
    /\ \E c \in run.inflight :
         /\ c.step = "called"
         /\ IF BeforeNonceRead(c) # "ok"
            THEN /\ run' = Caught([run EXCEPT !.inflight = @ \ {c}], BeforeNonceRead(c))
                 /\ last' = [op |-> "send_transaction", result |-> BeforeNonceRead(c),
                             ret |-> NoWeb3]
            ELSE /\ run' = [run EXCEPT !.inflight = (@ \ {c}) \cup
                                {[c EXCEPT !.step = "nonce_read",
                                           !.nonce = get_transaction_count(c.sender),
                                           !.gasPrice = gasPrice]}]
                 /\ UNCHANGED last
    /\ UNCHANGED <<supVars, envVars, ledgerVars, nodeVars, boot, config, draw>>

\* send_transaction() from the signing to its return: the raw transaction is
\* handed to the node, which accepts or rejects it, or does not answer.
SeqSubmit ==
    /\ \E c \in run.inflight, accepts \in BOOLEAN :
         /\ c.step = "nonce_read"
         /\ IF ~is_connected(web3)
            THEN /\ run' = Caught([run EXCEPT !.inflight = @ \ {c}], "ConnectionError")
                 /\ last' = [op |-> "send_transaction", result |-> "ConnectionError",
                             ret |-> NoWeb3]
                 /\ UNCHANGED nodeVars
            ELSE LET tx == [sender |-> c.sender,
                            nonce |-> c.nonce,
                            to |-> c.recipient,
                            value |-> to_wei(c.amount),
                            gas |-> TransferGas,
                            gasPrice |-> c.gasPrice]
                     accepted == accepts /\ NodeMayAccept(tx)
                 IN /\ rawLog' = Append(rawLog, [tx |-> tx, accepted |-> accepted])
                    /\ last' = [op |-> "send_transaction", result |-> Verdict(accepted),
                                ret |-> IF accepted THEN hex(TxHash(tx)) ELSE NoWeb3]
                    /\ run' = Caught([run EXCEPT !.inflight = @ \ {c}], Verdict(accepted))
                    /\ IF accepted
                       THEN pending' = [pending EXCEPT ![c.sender] =
                                           {q \in @ : q[1] # tx.nonce}
                                               \cup {<<tx.nonce, tx.gasPrice>>}]
                       ELSE UNCHANGED pending
                    /\ UNCHANGED <<mined, gasPrice>>
    /\ UNCHANGED <<supVars, envVars, ledgerVars, boot, config, draw>>

\* Back in the loop body: the inter-arrival draw, added to currrent_time in
\* duration mode, and on to the loop test.
SeqGap ==
    /\ run.state = "RUNNING"
    /\ run.stage = "sending"
    /\ Returned
    /\ \E gap \in generate_interarrival_time(config) :
         run' = IF gap.result # "ok"
                THEN Raised(run, gap.result)
                ELSE [run EXCEPT !.stage = "top",
                                 !.iterations = @ + 1,
                                 !.gaps = @ + 1,
                                 !.gap = gap.ret,
                                 !.current_time = IF run.duration.given
                                                  THEN @ + gap.ret ELSE @]
    /\ UNCHANGED <<supVars, envVars, ledgerVars, nodeVars, last, boot, config, draw>>

Next ==
    \/ ConnectBegin
    \/ ConnectPoll
    \/ stop_client
    \/ get_web3
    \/ ProcServes
    \/ ProcExits
    \/ ExternalStarts
    \/ ExternalStops

Spec == Init /\ [][Next]_vars

\* ------------------------------------------------------------------------
\* The ledger's initialization, on a freshly constructed supervisor and a data
\* directory that is missing, empty, or left by an earlier run of either client.
DatadirsFound ==
    {{}, {"."}, {".", "geth", "keystore"}, {".", "db", "static_files"}, {".", "reth"}}

InitLedger ==
    /\ InitSupervisor
    /\ datadir \in DatadirsFound
    /\ LedgerUntouched
    /\ NodeUntouched
    /\ NoSimulator

NextLedger ==
    \/ InitializeLedger
    \/ DatadirCreated

SpecLedger == InitLedger /\ [][NextLedger]_vars

\* ------------------------------------------------------------------------
\* Transaction submission, from the state a first connect() leaves when the
\* client it launched came up and answered its first poll.
InitTx ==
    /\ client_type \in ClientTypes
    /\ web3 = [id |-> 1, url |-> rpc_url]
    /\ returned = web3
    /\ nextId = 1
    /\ process = 1
    /\ pc = "idle"
    /\ polls = 1
    /\ slept = 0
    /\ call = [rpc |-> FALSE, cached |-> NoWeb3, live |-> FALSE, launched |-> TRUE,
               owned |-> NoProcess]
    /\ last = [op |-> "connect", result |-> "ok", ret |-> web3]
    /\ procs = [p \in Pids |-> IF p = 1 THEN "serving" ELSE "unborn"]
    /\ signalled = {}
    /\ extUp = FALSE
    /\ installed = TRUE
    /\ datadir = {"."}
    /\ LedgerUntouched
    /\ NodeUntouched
    /\ NoSimulator

NextTx ==
    \/ SubmitTransaction
    \/ Mine
    \/ GasPriceMoves
    \/ ProcExits
    \/ ExternalStarts
    \/ ExternalStops

SpecTx == InitTx /\ [][NextTx]_vars

\* The same, with calls of send_transaction() on arbitrary arguments, while
\* the launched client serves and after it has exited.
NextCall ==
    \/ CallSendTransaction
    \/ Mine
    \/ GasPriceMoves
    \/ ProcExits

SpecCall == InitTx /\ [][NextCall]_vars

\* ------------------------------------------------------------------------
\* The construction of a TransactionSimulator: a validated configuration, a
\* fresh supervisor, and the data directory and endpoint as they are found.
InitBoot ==
    /\ InitSupervisor
    /\ datadir \in DatadirsFound
    /\ LedgerUntouched
    /\ NodeUntouched
    /\ boot = "new"
    /\ config \in TwoPlayerConfigs
    /\ run = NoRun
    /\ draw = NoDraw

NextBoot ==
    \/ BootInitializeLedger
    \/ BootConnect
    \/ ConnectPoll
    \/ BootManager
    \/ ManagerConnect
    \/ BootAccounts
    \/ ProcServes
    \/ ProcExits
    \/ ExternalStarts
    \/ ExternalStops

SpecBoot == InitBoot /\ [][NextBoot]_vars

\* ------------------------------------------------------------------------
\* The runs of a constructed simulator: the supervisor as a first connect()
\* leaves it, two players, and a participant distribution that is one of the
\* two the configuration accepts or "uniform", the value the sampler knows,
\* which only an assignment to the field after validation can put there.
SimConfigs ==
    TwoPlayerConfigs
        \cup {[c EXCEPT !.player.distribution = "uniform"] : c \in TwoPlayerConfigs}

Constructed ==
    /\ client_type = "geth"
    /\ web3 = [id |-> 1, url |-> rpc_url]
    /\ returned = web3
    /\ nextId = 1
    /\ process = 1
    /\ pc = "idle"
    /\ polls = 1
    /\ slept = 0
    /\ call = [rpc |-> FALSE, cached |-> NoWeb3, live |-> FALSE, launched |-> TRUE,
               owned |-> NoProcess]
    /\ last = [op |-> "connect", result |-> "ok", ret |-> web3]
    /\ procs = [p \in Pids |-> IF p = 1 THEN "serving" ELSE "unborn"]
    /\ signalled = {}
    /\ extUp = FALSE
    /\ installed = TRUE
    /\ datadir = {".", "genesis.json", "geth", "keystore"}
    /\ genesis = [written |-> TRUE, alloc |-> {}]
    /\ initCalls = 1
    /\ initRuns = 1
    /\ initOk = TRUE
    /\ lateRuns = 0
    /\ NodeUntouched
    /\ boot = "ready"
    /\ run = NoRun
    /\ draw = NoDraw

InitSim ==
    /\ Constructed
    /\ config \in SimConfigs

NextSim ==
    \/ run_simulation
    \/ LoopStep
    \/ ProcExits
    \/ ExternalStarts
    \/ ExternalStops

SpecSim == InitSim /\ [][NextSim]_vars

\* ------------------------------------------------------------------------
\* The construction of a TransactionManager on a supervisor its caller may
\* have connected and stopped before.
InitManager ==
    /\ InitSupervisor
    /\ datadir = {"."}
    /\ LedgerUntouched
    /\ NodeUntouched
    /\ boot = "supervisor"
    /\ config = NoConfig
    /\ run = NoRun
    /\ draw = NoDraw

NextManager ==
    \/ CallerConnect
    \/ CallerStop
    \/ ConnectPoll
    \/ BootManager
    \/ ManagerConnect
    \/ ProcServes
    \/ ProcExits
    \/ ExternalStarts
    \/ ExternalStops

SpecManager == InitManager /\ [][NextManager]_vars

\* ------------------------------------------------------------------------
\* Launches by supervisors of every URL and every extra_args.
InitLaunch ==
    /\ InitSupervisor
    /\ datadir = {"."}
    /\ LedgerUntouched
    /\ NodeUntouched
    /\ boot = "none"
    /\ config \in [rpc : RpcUrls, datadir : {"./data"}, extra_args : ExtraArgs]
    /\ run = NoRun
    /\ draw = NoDraw

NextLaunch ==
    \/ StartClient
    \/ ProcServes
    \/ ProcExits

SpecLaunch == InitLaunch /\ [][NextLaunch]_vars

\* The same runs, the loop taken one statement at a time.
NextSeq ==
    \/ run_simulation
    \/ SeqSample
    \/ SeqNonceRead
    \/ SeqSubmit
    \/ SeqGap
    \/ Mine
    \/ ProcExits

SpecSeq == InitSim /\ [][NextSeq]_vars

\* ------------------------------------------------------------------------
\* The sampling functions on their own, for every accepted configuration (and
\* the participant distribution "uniform").
SamplerConfigs ==
    AcceptedConfigs
        \cup {[c EXCEPT !.player.distribution = "uniform"] : c \in AcceptedConfigs}

InitSample ==
    /\ Constructed
    /\ config \in SamplerConfigs

NextSample ==
    \/ ConstructPlayerSamplerConfig
    \/ SelectPlayers
    \/ GenerateTransactionAmount
    \/ GenerateInterarrivalTime

SpecSample == InitSample /\ [][NextSample]_vars

\* ==================================================================== claims

\* C1 (as claimed): no raw transaction handed to the node carries a nonce that
\* a transaction of the same sender, accepted by the node earlier, carries.
C1_NonceNeverReused ==
    \A i, j \in DOMAIN rawLog :
        (i < j /\ rawLog[i].accepted /\ rawLog[i].tx.sender = rawLog[j].tx.sender)
            => rawLog[i].tx.nonce # rawLog[j].tx.nonce

\* C2 (as claimed): a connect() called while the RPC endpoint is answering
\* launches no client process, and a supervisor that owned no process at that
\* call owns none afterwards.
C2_NoLaunchWhenEndpointAnswers ==
    call.rpc => (~call.launched /\ (call.owned = NoProcess => process = NoProcess))

\* C3: a connect() that fails with ConnectionError has made exactly 10 polls, one
\* per 1-unit sleep, all unanswered, and leaves the cache as it found it; while
\* it is polling it has made fewer than 10, and it never makes more than 10.
\* (A launch that raises FileNotFoundError ends connect() before the first poll.)
C3_ExactlyTenPolls ==
    /\ (last.op = "connect" /\ last.result = "ConnectionError")
          => (polls = 10 /\ slept = 10 /\ pc = "idle" /\ web3 = call.cached)
    /\ pc = "polling" => (polls < 10 /\ slept = polls)
    /\ polls <= 10

C3_Witness ==
    /\ last.op = "connect"
    /\ last.result = "ConnectionError"
    /\ polls = 10
    /\ ~call.rpc

\* C4 (as claimed): a connect() called while the cached handle answers liveness
\* returns that very handle, leaves it cached, and launches nothing.
C4_CachedHandleReturned ==
    (last.op = "connect" /\ last.result = "ok" /\ call.live)
        => (last.ret = call.cached /\ web3 = call.cached /\ ~call.launched)

\* C5: a connect() that returned did so at its first answered poll k, 1 <= k <= 10
\* (k polls, the k-1 unanswered ones each followed by a sleep), the handle it
\* returned is bound to rpc_url and is the cached one, and get_web3() afterwards
\* returns that very handle.
C5_FirstAnswerCached ==
    /\ (last.op = "connect" /\ last.result = "ok")
          => /\ pc = "idle"
             /\ polls \in 1..10
             /\ slept = polls - 1
             /\ last.ret = web3
             /\ returned = web3
             /\ web3.url = rpc_url
             /\ web3.id = nextId
    /\ (last.op = "get_web3" /\ last.result = "ok")
          => (last.ret = returned /\ returned # NoWeb3 /\ returned.url = rpc_url)

C5_Witness ==
    /\ last.op = "get_web3"
    /\ last.result = "ok"
    /\ last.ret = returned
    /\ polls = 4

\* C6 (as claimed): over all the connect() calls of a supervisor, at most one
\* client process is launched.
C6_LaunchedAtMostOnce == Cardinality(Launched) <= 1

\* C7: get_web3() returns the cached handle when there is one and raises
\* otherwise; while no connect() has succeeded there is no cached handle, so
\* get_web3() raises and returns none.
C7_GetWeb3OrNotConnected ==
    /\ nextId = 0 => web3 = NoWeb3
    /\ last.op = "get_web3"
          => IF web3 = NoWeb3
             THEN last.result = "ValueError" /\ last.ret = NoWeb3
             ELSE last.result = "ok" /\ last.ret = web3
    /\ (last.op = "get_web3" /\ nextId = 0) => last.result = "ValueError"

C7_Witness ==
    /\ last.op = "get_web3"
    /\ last.result = "ValueError"
    /\ polls = 10
    /\ nextId = 0

\* C8: a stop_client() on a supervisor that owns a process signals that process,
\* returns with it exited and forgets it; a stop_client() on a supervisor that
\* owns none (so every further call) signals nothing and changes no field, no
\* process and no endpoint.
C8_StopTerminatesThenNoOp ==
    [][stop_client =>
          IF process # NoProcess
          THEN /\ process' = NoProcess
               /\ signalled' = signalled \cup {process}
               /\ procs'[process] = "exited"
               /\ \A p \in Pids \ {process} : procs'[p] = procs[p]
               /\ last'.result = "stopped"
          ELSE /\ UNCHANGED <<supVars, envVars, ledgerVars, nodeVars>>
               /\ last'.result = "nothing"]_vars

C8_Witness ==
    /\ last.op = "stop_client"
    /\ last.result = "nothing"
    /\ signalled # {}
    /\ process = NoProcess

\* C9: a stop_client() on a supervisor that owns no process signals no process
\* and leaves every client, the external one included, as it was; only processes
\* the supervisor launched are ever signalled, and the external client starts
\* and stops only by itself.
C9_StopLeavesExternalClient ==
    /\ [][(stop_client /\ process = NoProcess)
             => (signalled' = signalled /\ procs' = procs /\ extUp' = extUp)]_vars
    /\ [][signalled' # signalled => (stop_client /\ signalled' \subseteq Launched)]_vars
    /\ [][extUp' # extUp => (ExternalStarts \/ ExternalStops)]_vars

C9_Witness ==
    /\ last.op = "stop_client"
    /\ last.result = "nothing"
    /\ extUp
    /\ Launched = {}
    /\ signalled = {}
\* C10 (as claimed): once a run of the init subcommand has succeeded, no call of
\* initialize_blockchain() runs it again.
C10_NoInitAfterSuccessfulInit == lateRuns = 0

\* C11 (as claimed): when the init subcommand run by the constructor's
\* initialize_blockchain() exits non-zero, the construction has failed there:
\* no connect() is called and no client is launched after it.
C11_FailedInitStopsStartup ==
    (boot # "none" /\ initRuns = 1 /\ ~initOk)
        => (boot = "failed" /\ last.op = "initialize_blockchain" /\ Launched = {})

\* C12: run_simulation() fails with AssertionError exactly when both or neither
\* of duration and num_transactions are given, and such a call samples no pair
\* and submits no transaction.
C12_ExactlyOneStopCondition ==
    /\ run.state # "NEW"
          => (run.state = "AssertionError"
                 <=> run.duration.given = run.num_transactions.given)
    /\ run.state = "AssertionError"
          => (run.sampled = 0 /\ run.attempts = 0 /\ rawLog = <<>>)

C12_Witness ==
    /\ run.state = "AssertionError"
    /\ run.duration.given
    /\ run.num_transactions.given

\* C13 (as claimed): for every accepted configuration, a run in count mode ends
\* by stopping, after exactly num_transactions calls of send_transaction().
C13_CountModeExactlyN ==
    (/\ config \in AcceptedConfigs
     /\ run.num_transactions.given
     /\ ~run.duration.given
     /\ run.state \in {"STOPPED", "FAILED"})
        => (run.state = "STOPPED" /\ run.attempts = run.num_transactions.v)

\* C14 (as claimed): for every accepted configuration with a constant
\* inter-arrival period p > 0, a run in duration mode with duration D > 0 ends
\* by stopping, after exactly ceil(D / p) calls of send_transaction(), its clock
\* then at p times that number.
C14_DurationModeCeiling ==
    (/\ config \in AcceptedConfigs
     /\ config.interarrival.distribution = "constant"
     /\ config.interarrival.period > 0
     /\ run.duration.given
     /\ ~run.num_transactions.given
     /\ run.duration.v > 0
     /\ run.state \in {"STOPPED", "FAILED"})
        => /\ run.state = "STOPPED"
           /\ run.attempts = (run.duration.v + config.interarrival.period - 1)
                                 \div config.interarrival.period
           /\ run.current_time = run.attempts * config.interarrival.period

\* C15: a turn of the loop in which send_transaction() fails counts the failure
\* and ends as the same turn with a successful send_transaction() would: the
\* run is still running with one more iteration made, unless the inter-arrival
\* draw of that turn raised; no failure of send_transaction() is ever the error
\* that ended a run.
C15_SendFailureNeverHalts ==
    /\ [][(LoopStep /\ run'.attempts = run.attempts + 1 /\ last'.result # "ok")
             => /\ run'.failures = run.failures + 1
                /\ \/ /\ run'.state = "RUNNING"
                      /\ run'.iterations = run.iterations + 1
                   \/ /\ run'.state = "FAILED"
                      /\ \E gap \in generate_interarrival_time(config) :
                            gap.result = run'.error]_vars
    /\ [](run.state = "FAILED" => run.error \in {"UnboundLocalError", "ValueError"})
    /\ [](run.state = "STOPPED" => ~LoopContinues)

C15_Witness ==
    /\ run.state = "STOPPED"
    /\ run.failures >= 2
    /\ run.attempts = 3
    /\ \E i \in DOMAIN rawLog : ~rawLog[i].accepted
    /\ Len(rawLog) < run.attempts

\* C16 (as claimed): a run that has entered its loop leaves it only by
\* stopping; no exception ends it.
C16_LoopLeavesOnlyByStopCondition ==
    run.state # "FAILED"

\* C17 (as claimed): with two accounts or more and either participant
\* distribution the configuration accepts, every call of _select_players()
\* returns a pair taken at two distinct indices in [0, num_accounts).
C17_DistinctPlayers ==
    (/\ draw.fn = "_select_players"
     /\ config.num_accounts >= 2
     /\ config.player.distribution \in {"random", "zipf"})
        => /\ draw.out.result = "ok"
           /\ draw.out.sender_idx # draw.out.recipient_idx
           /\ draw.out.sender_idx \in 0..(config.num_accounts - 1)
           /\ draw.out.recipient_idx \in 0..(config.num_accounts - 1)

\* C18 (as claimed): for every accepted amount configuration, every value that
\* _generate_transaction_amount() returns lies in [amount_min, amount_max].
C18_AmountWithinBounds ==
    (/\ draw.fn = "_generate_transaction_amount"
     /\ config \in AcceptedConfigs
     /\ draw.out.result = "ok")
        => /\ config.amount.amount_min <= draw.out.ret
           /\ draw.out.ret <= config.amount.amount_max

\* C19 (as claimed): in normal mode the raw draw has location normal_mean and
\* scale normal_std, and the value returned is that draw clipped to
\* [amount_min, amount_max].
C19_NormalUsesMeanAndStd ==
    (/\ draw.fn = "_generate_transaction_amount"
     /\ config.amount.distribution = "normal"
     /\ draw.out.result = "ok")
        => /\ draw.out.raw = config.amount.normal_mean + config.amount.normal_std * draw.out.z
           /\ draw.out.ret = Clip(draw.out.raw, config.amount.amount_min,
                                  config.amount.amount_max)

\* C20: a send_transaction() with a malformed recipient fails with the
\* invalid-recipient ValueError whether or not the node answers, and changes
\* nothing at the node; no raw transaction ever names a malformed recipient.
C20_MalformedRecipientNeverSent ==
    /\ [][\A sender \in Accounts, private_key \in PrivateKeys,
             amount_ether \in TxAmounts, accepts \in BOOLEAN :
             (web3 # NoWeb3 /\ send_transaction(sender, private_key, BadAddress,
                                                amount_ether, accepts))
                 => /\ last'.result = "ValueError: invalid recipient"
                    /\ UNCHANGED nodeVars]_vars
    /\ [](\A i \in DOMAIN rawLog : rawLog[i].tx.to # BadAddress)

C20_Witness ==
    /\ last.op = "send_transaction"
    /\ last.result = "ValueError: invalid recipient"
    /\ ~RpcAnswers
    /\ Len(rawLog) = 1

\* C21: a send_transaction() with a valid recipient and a negative amount fails
\* in the conversion to wei, whether or not the node answers, and changes
\* nothing at the node; no raw transaction ever carries a negative value.
C21_NegativeAmountNeverSent ==
    /\ [][\A sender \in Accounts, private_key \in PrivateKeys,
             recipient \in Accounts, accepts \in BOOLEAN :
             \A amount_ether \in {a \in TxAmounts : a < 0} :
                (web3 # NoWeb3 /\ send_transaction(sender, private_key, recipient,
                                                   amount_ether, accepts))
                    => /\ last'.result = "ValueError: wei out of range"
                       /\ UNCHANGED nodeVars]_vars
    /\ [](\A i \in DOMAIN rawLog :
             rawLog[i].tx.value.shift = 18 /\ rawLog[i].tx.value.digits >= 0)

C21_Witness ==
    /\ last.op = "send_transaction"
    /\ last.result = "ValueError: wei out of range"
    /\ ~RpcAnswers
    /\ Len(rawLog) = 1

\* C22: every send_transaction() that hands a transaction to the node hands it
\* one with gas limit 21000, the nonce that get_transaction_count() gives for
\* the sender and the network gas price, both as they are at that call, the
\* given recipient and the given amount converted to wei; when the node takes
\* it, the call returns the hex form of the node's hash of that transaction.
C22_TransactionAsAssembled ==
    [][\A sender \in Accounts, private_key \in PrivateKeys, recipient \in Accounts,
         amount_ether \in TxAmounts, accepts \in BOOLEAN :
          (/\ send_transaction(sender, private_key, recipient, amount_ether, accepts)
           /\ Len(rawLog') = Len(rawLog) + 1)
              => LET sent == rawLog'[Len(rawLog')]
                 IN /\ sent.tx.gas = 21000
                    /\ sent.tx.nonce = get_transaction_count(sender)
                    /\ sent.tx.gasPrice = gasPrice
                    /\ sent.tx.to = recipient
                    /\ sent.tx.value = [digits |-> amount_ether, shift |-> 18]
                    /\ sent.accepted
                          => /\ last'.result = "ok"
                             /\ last'.ret = hex(TxHash(sent.tx))
                             /\ last'.ret # NoWeb3]_vars

C22_Witness ==
    /\ last.op = "send_transaction"
    /\ last.result = "ok"
    /\ Len(rawLog) = 2
    /\ rawLog[2].tx.nonce = 1
    /\ rawLog[2].tx.gasPrice = 2
    /\ last.ret = hex(TxHash(rawLog[2].tx))

\* C23: a send_transaction() returns normally, with a hash, only when the node
\* took the raw transaction of that call; every failure (no handle, malformed
\* recipient, amount out of range, node not answering, signing, rejection by
\* the node) ends the call with an error and returns nothing.
C23_FailuresPropagate ==
    /\ []((last.op = "send_transaction" /\ last.result = "ok")
             => /\ rawLog # <<>>
                /\ rawLog[Len(rawLog)].accepted
                /\ last.ret = hex(TxHash(rawLog[Len(rawLog)].tx)))
    /\ []((last.op = "send_transaction" /\ last.result # "ok")
             => /\ last.ret = NoWeb3
                /\ last.result \in {"ValueError: not initialized",
                                     "ValueError: invalid recipient",
                                     "ValueError: wei out of range",
                                     "ConnectionError", "SigningError", "rejected"})
    /\ [][\A sender \in Accounts, private_key \in PrivateKeys,
             recipient \in Accounts \cup {BadAddress},
             amount_ether \in TxAmounts, accepts \in BOOLEAN :
             (/\ send_transaction(sender, private_key, recipient, amount_ether, accepts)
              /\ \/ web3 = NoWeb3
                 \/ ~is_address(recipient)
                 \/ amount_ether < 0
                 \/ ~is_connected(web3)
                 \/ private_key # GoodKey
                 \/ ~accepts
                 \/ \E q \in pending[sender] :
                       q[1] = get_transaction_count(sender) /\ q[2] >= gasPrice)
                => last'.result # "ok"]_vars

C23_Witness ==
    /\ last.op = "send_transaction"
    /\ last.result = "rejected"
    /\ Len(rawLog) = 2
    /\ rawLog[1].accepted
    /\ ~rawLog[2].accepted

\* C24 (as claimed): once the simulator is constructed, every account of its
\* player list is funded in the genesis allocation the ledger was initialized
\* with.
C24_PlayersFundedInGenesis ==
    boot = "ready"
        => \A i \in 0..(config.num_accounts - 1) :
               \E entry \in genesis.alloc : entry[1] = PlayerAddress(i)

\* C25 (as claimed): a participant-sampler configuration whose Zipf exponent
\* is not strictly greater than 1 is rejected when the record is constructed.
C25_ZipfExponentAboveOne ==
    (draw.fn = "TransactionPlayerSamplerConfig" /\ draw.out.record.zipf_alpha <= 1)
        => draw.out.result = "ValidationError"

\* C26 (as claimed): run_simulation() called with a duration <= 0 or with a
\* num_transactions <= 0 is rejected as an error; it never runs.
C26_NonPositiveStopRejected ==
    (/\ run.state # "NEW"
     /\ \/ run.duration.given /\ run.duration.v <= 0
        \/ run.num_transactions.given /\ run.num_transactions.v <= 0)
        => run.state = "AssertionError"

\* C27 (as claimed): in zipf mode every draw of a pair is made with weights
\* proportional to 1 / r^alpha over the ranks r = 1..N (the weight at rank r
\* times r^alpha is the weight at rank 1), which sum to 1 and, for alpha > 1,
\* strictly decrease as the rank increases.
C27_ZipfWeights ==
    (/\ draw.fn = "_select_players"
     /\ config.player.distribution = "zipf"
     /\ config.num_accounts >= 2)
        => LET w == draw.out.weights
               N == config.num_accounts
               alpha == config.player.zipf_alpha
           IN /\ draw.out.result = "ok"
              /\ DOMAIN w = 1..N
              /\ \A r \in 1..N : /\ w[r].den = w[1].den
                                 /\ w[r].num * Power(r, alpha) = w[1].num
              /\ SumOver([r \in 1..N |-> w[r].num], N) = w[1].den
              /\ alpha > 1 => \A r \in 1..(N - 1) : w[r].num > w[r + 1].num

\* C28: the loop is strictly sequential: no sender ever has two
\* nonce-read-then-submit sequences in flight, the loop is at its test only
\* when none is in flight, and a pair is sampled only when the sequence of the
\* turn before has completed or failed.
C28_StrictlySequential ==
    /\ [](\A a \in Accounts : Cardinality({c \in run.inflight : c.sender = a}) <= 1)
    /\ [](Cardinality(run.inflight) <= 1)
    /\ [](run.stage = "top" => run.inflight = {})
    /\ [][run'.sampled > run.sampled => run.inflight = {}]_vars

\* The sequence of a second turn in flight, its nonce read, after the
\* transaction of the first turn was submitted.
C28_Witness ==
    /\ run.iterations = 1
    /\ Len(rawLog) = 1
    /\ \E c \in run.inflight : c.step = "nonce_read" /\ c.sender = rawLog[1].tx.sender

C30_Base == IF client_type = "reth" THEN 9 ELSE 10
C30_HostAt == IF client_type = "reth" THEN 5 ELSE 4

C30_BaseAsClaimed ==
    /\ draw.out[1] = client_type
    /\ draw.out[C30_HostAt - 1] = "--http.addr"
    /\ draw.out[C30_HostAt] \in {hostname(config.rpc), DefaultHost}
    /\ draw.out[C30_HostAt + 1] = "--http.port"
    /\ draw.out[C30_HostAt + 2] \in {str(config.rpc.port.v), str(DefaultPort)}
    /\ draw.out[C30_HostAt + 3] = "--datadir"
    /\ draw.out[C30_HostAt + 4] = config.datadir

\* C30 (as claimed): the launch command is the base flags of the client
\* followed, for every entry of extra_args in order, by its flag and its value.
C30_ExtraArgsVerbatim ==
    draw.fn = "_start_client"
        => /\ C30_BaseAsClaimed
           /\ Len(draw.out) = C30_Base + 2 * Len(config.extra_args)
           /\ \A i \in DOMAIN config.extra_args :
                 /\ draw.out[C30_Base + 2 * i - 1] = config.extra_args[i][1]
                 /\ draw.out[C30_Base + 2 * i] = config.extra_args[i][2]

\* The entries of extra_args before the i-th that have a non-empty value.
C30_ValuesBefore(i) ==
    Cardinality({j \in 1..(i - 1) : config.extra_args[j][2] # ""})

\* C30 (amended): the launch command is the base flags of the client
\* followed, for every entry of extra_args in order, by its flag and then, if
\* the value is not the empty string, by the value as given; an entry with an
\* empty value adds its flag alone. Nothing else is added or left out.
C30_ExtraArgsNonEmptyVerbatim ==
    draw.fn = "_start_client"
        => /\ C30_BaseAsClaimed
           /\ Len(draw.out) = C30_Base + Len(config.extra_args)
                                  + C30_ValuesBefore(Len(config.extra_args) + 1)
           /\ \A i \in DOMAIN config.extra_args :
                 LET at == C30_Base + i + C30_ValuesBefore(i)
                 IN /\ draw.out[at] = config.extra_args[i][1]
                    /\ config.extra_args[i][2] # ""
                          => draw.out[at + 1] = config.extra_args[i][2]

\* A launch with a flag of empty value followed by a flag with a value, on a
\* URL without port.
C30_Witness ==
    /\ draw.fn = "_start_client"
    /\ last.op = "_start_client" /\ last.result = "ok"
    /\ Len(config.extra_args) = 2
    /\ config.extra_args[1][2] = ""
    /\ config.extra_args[2][2] = "mainnet"
    /\ ~config.rpc.port.given
    /\ Len(draw.out) = C30_Base + 3

C32_EveryAcceptedValueHandled ==
    (/\ config \in AcceptedConfigs
     /\ draw.fn \in {"_select_players", "_generate_transaction_amount",
                     "_generate_interarrival_time"})
        => draw.out.result \notin {"UnboundLocalError", "None"}

\* C33 (as claimed): once stop_client() has returned, no client process that
\* the supervisor launched is still running.
C33_StopLeavesNoLaunchedClient ==
    last.op = "stop_client"
        => \A p \in Launched : procs[p] = "exited"

\* C34: a connect() that failed with ConnectionError leaves the cached handle
\* as it was when the call began, and the cached handle changes only in a
\* poll that got an answer, which ends the call successfully.
C34_FailedConnectKeepsCache ==
    /\ []((last.op = "connect" /\ last.result = "ConnectionError")
             => web3 = call.cached)
    /\ [][web3' # web3
            => (ConnectPoll /\ is_rpc_active /\ web3' = NewWeb3
                   /\ last'.op = "connect" /\ last'.result = "ok")]_vars

\* A connect() that failed after its ten polls on a supervisor that held a
\* handle from an earlier connect(): the handle is still cached.
C34_Witness ==
    /\ last.op = "connect"
    /\ last.result = "ConnectionError"
    /\ polls = PollBudget
    /\ call.cached # NoWeb3
    /\ web3 = call.cached

C36_ManagerHoldsConnection ==
    /\ [](boot = "manager" => web3 # NoWeb3)
    /\ [][(BootManager /\ ~installed) => boot' = "failed"]_vars
    /\ [][ManagerConnect
            => IF is_client_running
               THEN boot' = "manager" /\ UNCHANGED <<supVars, envVars>>
               ELSE last'.op = "connect" /\ boot' \in {"reconnect", "failed"}]_vars
    /\ [][(boot = "reconnect" /\ boot' # boot)
            => /\ last'.op = "connect"
               /\ IF last'.result = "ok"
                  THEN boot' = "manager" /\ web3' = last'.ret
                  ELSE boot' = "failed"]_vars
    /\ [](boot = "failed"
             => \/ last.op = "check_clients" /\ last.result = "FileNotFoundError"
                \/ last.op = "connect" /\ last.result = "ConnectionError")

\* A manager constructed on a supervisor that had no cached handle: its
\* validator called connect(), which launched the client and cached the handle.
C36_Witness ==
    /\ boot = "manager"
    /\ last.op = "connect"
    /\ last.result = "ok"
    /\ call.cached = NoWeb3
    /\ call.launched
    /\ web3 = last.ret
    /\ nextId = 1

====
